---- MODULE Spec2Model ----
(***************************************************************************)
(* Model of script.js, the client-side logic of the Imposter party game:   *)
(* the deterministic hash (seedToNumber, seededRandom), the round clock    *)
(* (getCurrentRoundNumber, getSecondsUntilNextRound), the game state       *)
(* resolver (getImposterPlayer, getSecretWord) and the handlers            *)
(* (updateTotalPlayers, revealRole, updateTimer).                          *)
(*                                                                         *)
(* JavaScript numbers that may leave the range of a 32-bit signed integer  *)
(* are held as pairs <<hi, lo>> standing for hi * 2^16 + lo with           *)
(* 0 <= lo < 2^16 and hi any integer: an unsigned 32-bit value has         *)
(* 0 <= hi < 2^16, a signed 32-bit value has -2^15 <= hi < 2^15.           *)
(* Strings are sequences of UTF-16 code units.                             *)
(***************************************************************************)
EXTENDS Integers, Sequences, FiniteSets

\* ------------------------------------------------------------------------
\* JavaScript number and bit operations on <<hi, lo>> pairs
\* ------------------------------------------------------------------------

Half == 2^16

\* The pair of a small integer n.
Num(n) == <<n \div Half, n % Half>>

\* Carry of the low limb into the high limb.
Norm(hi, lo) == <<hi + (lo \div Half), lo % Half>>

\* x + y on JavaScript numbers (exact: no value here reaches 2^53).
Add(x, y) == Norm(x[1] + y[1], x[2] + y[2])

\* ToUint32, which `x >>> 0` applies: x modulo 2^32.
ToUint32(x) == <<x[1] % Half, x[2]>>

\* ToInt32, which every bitwise operator applies to its result.
ToInt32(x) ==
    LET u == ToUint32(x)
    IN  IF u[1] >= Half \div 2 THEN <<u[1] - Half, u[2]>> ELSE u

\* x << n: the signed 32-bit value of x * 2^n.
ShiftLeft(x, n) ==
    LET u == ToUint32(x)
    IN  ToInt32(Norm(u[1] * 2^n, u[2] * 2^n))

\* x >>> n: the unsigned 32-bit value of x, shifted right, zero-filled.
UnsignedShiftRight(x, n) ==
    LET u == ToUint32(x)
    IN  IF n >= 16
        THEN <<0, u[1] \div 2^(n - 16)>>
        ELSE <<u[1] \div 2^n, (u[1] % 2^n) * 2^(16 - n) + (u[2] \div 2^n)>>

\* Bitwise exclusive or of two 4-bit digits, one bit at a time, as a table.
XorDigit ==
    [a \in 0..15 |-> [b \in 0..15 |->
        ((a + b) % 2)
        + 2 * (((a \div 2) + (b \div 2)) % 2)
        + 4 * (((a \div 4) + (b \div 4)) % 2)
        + 8 * (((a \div 8) + (b \div 8)) % 2)]]

\* Bitwise exclusive or of two 16-bit limbs, digit by digit.
Xor16(a, b) ==
    XorDigit[a % 16][b % 16]
    + 16 * XorDigit[(a \div 16) % 16][(b \div 16) % 16]
    + 256 * XorDigit[(a \div 256) % 16][(b \div 256) % 16]
    + 4096 * XorDigit[a \div 4096][b \div 4096]

\* x ^ y: a signed 32-bit value.
BitXor(x, y) ==
    LET a == ToUint32(x)
        b == ToUint32(y)
    IN  ToInt32(<<Xor16(a[1], b[1]), Xor16(a[2], b[2])>>)

\* The 32-bit product of two 16-bit limbs, computed bytewise.
Mul16(a, b) ==
    LET p0 == (a % 256) * b
        p1 == (a \div 256) * b
    IN  Norm(p1 \div 256, (p1 % 256) * 256 + p0)

\* Math.imul(x, y): the low 32 bits of x * y, as a signed 32-bit value.
Imul(x, y) ==
    LET a == ToUint32(x)
        b == ToUint32(y)
        ll == Mul16(a[2], b[2])
        cross == Mul16(a[1], b[2])[2] + Mul16(a[2], b[1])[2]
    IN  ToInt32(<<(ll[1] + cross) % Half, ll[2]>>)

\* Math.floor(u * n) for the float u = x / 2^32 (x unsigned 32-bit) and a
\* small integer n: the product x * n is below 2^53, so the float product
\* is exact and its floor is the integer quotient.
FloorTimes(x, n) == (x[1] * n + ((x[2] * n) \div Half)) \div Half

InUint32(x) == x[1] \in 0..(Half - 1) /\ x[2] \in 0..(Half - 1)
InInt32(x) == x[1] \in (0 - Half \div 2)..(Half \div 2 - 1) /\ x[2] \in 0..(Half - 1)

\* ------------------------------------------------------------------------
\* Hash core
\* ------------------------------------------------------------------------

HashInit == 5381

\* TRUE for every v. TLC evaluates an operator's arguments only when they
\* are used; a use of Strict(v) has v evaluated at that point, so that an
\* accumulator is computed once per iteration and not as one nested
\* expression at the end of the loop.
Strict(v) == v = v

\* The loop body without its final >>> 0.
djb2Step_NoWrap(hash, c) == Add(Add(ShiftLeft(hash, 5), hash), Num(c))

\* The loop body as hash * 32 + c: the "+ hash" is left out.
djb2Step_Times32(hash, c) == ToUint32(Add(ShiftLeft(hash, 5), Num(c)))

\* One iteration of the loop of seedToNumber.
djb2Step(hash, c) == ToUint32(Add(Add(ShiftLeft(hash, 5), hash), Num(c)))

RECURSIVE seedToNumberFrom(_, _, _)
seedToNumberFrom(hash, seedString, i) ==
    IF Strict(hash) /\ i < Len(seedString)
    THEN seedToNumberFrom(djb2Step(hash, seedString[i + 1]), seedString, i + 1)
    ELSE hash

seedToNumber(seedString) == seedToNumberFrom(Num(HashInit), seedString, 0)

\* The multipliers 0xed5ad4bb, 0xac4c1b51, 0x31848bab.
MixMul1 == <<60762, 54459>>
MixMul2 == <<44108, 6993>>
MixMul3 == <<12676, 35755>>

\* The seven mixing statements of seededRandom, in order.
mixStep(k, hash) ==
    CASE k = 1 -> BitXor(hash, UnsignedShiftRight(hash, 17))
      [] k = 2 -> ToUint32(Imul(hash, MixMul1))
      [] k = 3 -> BitXor(hash, UnsignedShiftRight(hash, 11))
      [] k = 4 -> ToUint32(Imul(hash, MixMul2))
      [] k = 5 -> BitXor(hash, UnsignedShiftRight(hash, 15))
      [] k = 6 -> ToUint32(Imul(hash, MixMul3))
      [] k = 7 -> BitXor(hash, UnsignedShiftRight(hash, 14))

RECURSIVE mixFrom(_, _)
mixFrom(k, hash) ==
    IF Strict(hash) /\ k <= 7 THEN mixFrom(k + 1, mixStep(k, hash)) ELSE hash

\* The return statement without its >>> 0.
dividend_Signed(hash) == hash

\* The integer that the return statement divides by 4294967296.
dividend(hash) == ToUint32(hash)

\* seededRandom returns dividend / 2^32; the model holds the float by its
\* numerator, an unsigned 32-bit value.
seededRandom(seedString) == dividend(mixFrom(1, seedToNumber(seedString)))


\* ------------------------------------------------------------------------
\* Strings (sequences of UTF-16 code units) and the conversions used on them
\* ------------------------------------------------------------------------

\* The code units String.prototype.trim removes (WhiteSpace and
\* LineTerminator of ECMAScript).
WhiteSpace ==
    {9, 10, 11, 12, 13, 32, 160, 5760, 8232, 8233, 8239, 8287, 12288, 65279}
        \cup (8192..8202)

RECURSIVE trimStart(_)
trimStart(s) ==
    IF s # <<>> /\ Head(s) \in WhiteSpace THEN trimStart(Tail(s)) ELSE s

RECURSIVE trimEnd(_)
trimEnd(s) ==
    IF s # <<>> /\ s[Len(s)] \in WhiteSpace
    THEN trimEnd(SubSeq(s, 1, Len(s) - 1))
    ELSE s

trim(s) == trimEnd(trimStart(s))

\* String.prototype.toUpperCase maps each code point of the string to its
\* upper case of the Unicode Character Database (17.0), without regard to
\* locale or context. UpperCaseRanges lists the code points above Basic Latin
\* that have a one code point upper case, as <<first, last, step, delta>>:
\* every step-th code point c from first to last has upper case c + delta.
UpperCaseRanges ==
    <<
    <<181, 181, 1, 743>>, <<224, 246, 1, -32>>, <<248, 254, 1, -32>>,
    <<255, 255, 1, 121>>, <<257, 303, 2, -1>>, <<305, 305, 1, -232>>,
    <<307, 311, 2, -1>>, <<314, 328, 2, -1>>, <<331, 375, 2, -1>>,
    <<378, 382, 2, -1>>, <<383, 383, 1, -300>>, <<384, 384, 1, 195>>,
    <<387, 389, 2, -1>>, <<392, 392, 1, -1>>, <<396, 396, 1, -1>>,
    <<402, 402, 1, -1>>, <<405, 405, 1, 97>>, <<409, 409, 1, -1>>,
    <<410, 410, 1, 163>>, <<411, 411, 1, 42561>>, <<414, 414, 1, 130>>,
    <<417, 421, 2, -1>>, <<424, 424, 1, -1>>, <<429, 429, 1, -1>>,
    <<432, 432, 1, -1>>, <<436, 438, 2, -1>>, <<441, 441, 1, -1>>,
    <<445, 445, 1, -1>>, <<447, 447, 1, 56>>, <<453, 453, 1, -1>>,
    <<454, 454, 1, -2>>, <<456, 456, 1, -1>>, <<457, 457, 1, -2>>,
    <<459, 459, 1, -1>>, <<460, 460, 1, -2>>, <<462, 476, 2, -1>>,
    <<477, 477, 1, -79>>, <<479, 495, 2, -1>>, <<498, 498, 1, -1>>,
    <<499, 499, 1, -2>>, <<501, 501, 1, -1>>, <<505, 543, 2, -1>>,
    <<547, 563, 2, -1>>, <<572, 572, 1, -1>>, <<575, 576, 1, 10815>>,
    <<578, 578, 1, -1>>, <<583, 591, 2, -1>>, <<592, 592, 1, 10783>>,
    <<593, 593, 1, 10780>>, <<594, 594, 1, 10782>>, <<595, 595, 1, -210>>,
    <<596, 596, 1, -206>>, <<598, 599, 1, -205>>, <<601, 601, 1, -202>>,
    <<603, 603, 1, -203>>, <<604, 604, 1, 42319>>, <<608, 608, 1, -205>>,
    <<609, 609, 1, 42315>>, <<611, 611, 1, -207>>, <<612, 612, 1, 42343>>,
    <<613, 613, 1, 42280>>, <<614, 614, 1, 42308>>, <<616, 616, 1, -209>>,
    <<617, 617, 1, -211>>, <<618, 618, 1, 42308>>, <<619, 619, 1, 10743>>,
    <<620, 620, 1, 42305>>, <<623, 623, 1, -211>>, <<625, 625, 1, 10749>>,
    <<626, 626, 1, -213>>, <<629, 629, 1, -214>>, <<637, 637, 1, 10727>>,
    <<640, 640, 1, -218>>, <<642, 642, 1, 42307>>, <<643, 643, 1, -218>>,
    <<647, 647, 1, 42282>>, <<648, 648, 1, -218>>, <<649, 649, 1, -69>>,
    <<650, 651, 1, -217>>, <<652, 652, 1, -71>>, <<658, 658, 1, -219>>,
    <<669, 669, 1, 42261>>, <<670, 670, 1, 42258>>, <<837, 837, 1, 84>>,
    <<881, 883, 2, -1>>, <<887, 887, 1, -1>>, <<891, 893, 1, 130>>,
    <<940, 940, 1, -38>>, <<941, 943, 1, -37>>, <<945, 961, 1, -32>>,
    <<962, 962, 1, -31>>, <<963, 971, 1, -32>>, <<972, 972, 1, -64>>,
    <<973, 974, 1, -63>>, <<976, 976, 1, -62>>, <<977, 977, 1, -57>>,
    <<981, 981, 1, -47>>, <<982, 982, 1, -54>>, <<983, 983, 1, -8>>,
    <<985, 1007, 2, -1>>, <<1008, 1008, 1, -86>>, <<1009, 1009, 1, -80>>,
    <<1010, 1010, 1, 7>>, <<1011, 1011, 1, -116>>, <<1013, 1013, 1, -96>>,
    <<1016, 1016, 1, -1>>, <<1019, 1019, 1, -1>>, <<1072, 1103, 1, -32>>,
    <<1104, 1119, 1, -80>>, <<1121, 1153, 2, -1>>, <<1163, 1215, 2, -1>>,
    <<1218, 1230, 2, -1>>, <<1231, 1231, 1, -15>>, <<1233, 1327, 2, -1>>,
    <<1377, 1414, 1, -48>>, <<4304, 4346, 1, 3008>>,
    <<4349, 4351, 1, 3008>>, <<5112, 5117, 1, -8>>,
    <<7296, 7296, 1, -6254>>, <<7297, 7297, 1, -6253>>,
    <<7298, 7298, 1, -6244>>, <<7299, 7300, 1, -6242>>,
    <<7301, 7301, 1, -6243>>, <<7302, 7302, 1, -6236>>,
    <<7303, 7303, 1, -6181>>, <<7304, 7304, 1, 35266>>,
    <<7306, 7306, 1, -1>>, <<7545, 7545, 1, 35332>>,
    <<7549, 7549, 1, 3814>>, <<7566, 7566, 1, 35384>>,
    <<7681, 7829, 2, -1>>, <<7835, 7835, 1, -59>>, <<7841, 7935, 2, -1>>,
    <<7936, 7943, 1, 8>>, <<7952, 7957, 1, 8>>, <<7968, 7975, 1, 8>>,
    <<7984, 7991, 1, 8>>, <<8000, 8005, 1, 8>>, <<8017, 8023, 2, 8>>,
    <<8032, 8039, 1, 8>>, <<8048, 8049, 1, 74>>, <<8050, 8053, 1, 86>>,
    <<8054, 8055, 1, 100>>, <<8056, 8057, 1, 128>>, <<8058, 8059, 1, 112>>,
    <<8060, 8061, 1, 126>>, <<8112, 8113, 1, 8>>, <<8126, 8126, 1, -7205>>,
    <<8144, 8145, 1, 8>>, <<8160, 8161, 1, 8>>, <<8165, 8165, 1, 7>>,
    <<8526, 8526, 1, -28>>, <<8560, 8575, 1, -16>>, <<8580, 8580, 1, -1>>,
    <<9424, 9449, 1, -26>>, <<11312, 11359, 1, -48>>,
    <<11361, 11361, 1, -1>>, <<11365, 11365, 1, -10795>>,
    <<11366, 11366, 1, -10792>>, <<11368, 11372, 2, -1>>,
    <<11379, 11379, 1, -1>>, <<11382, 11382, 1, -1>>,
    <<11393, 11491, 2, -1>>, <<11500, 11502, 2, -1>>,
    <<11507, 11507, 1, -1>>, <<11520, 11557, 1, -7264>>,
    <<11559, 11559, 1, -7264>>, <<11565, 11565, 1, -7264>>,
    <<42561, 42605, 2, -1>>, <<42625, 42651, 2, -1>>,
    <<42787, 42799, 2, -1>>, <<42803, 42863, 2, -1>>,
    <<42874, 42876, 2, -1>>, <<42879, 42887, 2, -1>>,
    <<42892, 42892, 1, -1>>, <<42897, 42899, 2, -1>>,
    <<42900, 42900, 1, 48>>, <<42903, 42921, 2, -1>>,
    <<42933, 42947, 2, -1>>, <<42952, 42954, 2, -1>>,
    <<42957, 42971, 2, -1>>, <<42998, 42998, 1, -1>>,
    <<43859, 43859, 1, -928>>, <<43888, 43967, 1, -38864>>,
    <<65345, 65370, 1, -32>>, <<66600, 66639, 1, -40>>,
    <<66776, 66811, 1, -40>>, <<66967, 66977, 1, -39>>,
    <<66979, 66993, 1, -39>>, <<66995, 67001, 1, -39>>,
    <<67003, 67004, 1, -39>>, <<68800, 68850, 1, -64>>,
    <<68976, 68997, 1, -32>>, <<71872, 71903, 1, -32>>,
    <<93792, 93823, 1, -32>>, <<93883, 93907, 1, -27>>,
    <<125218, 125251, 1, -34>>
    >>

\* The code points whose upper case is more than one code point
\* (SpecialCasing), each with its upper case.
UpperCaseSpecial ==
    <<
    <<223, <<83, 83>>>>, <<329, <<700, 78>>>>, <<496, <<74, 780>>>>,
    <<912, <<921, 776, 769>>>>, <<944, <<933, 776, 769>>>>,
    <<1415, <<1333, 1362>>>>, <<7830, <<72, 817>>>>, <<7831, <<84, 776>>>>,
    <<7832, <<87, 778>>>>, <<7833, <<89, 778>>>>, <<7834, <<65, 702>>>>,
    <<8016, <<933, 787>>>>, <<8018, <<933, 787, 768>>>>,
    <<8020, <<933, 787, 769>>>>, <<8022, <<933, 787, 834>>>>,
    <<8064, <<7944, 921>>>>, <<8065, <<7945, 921>>>>,
    <<8066, <<7946, 921>>>>, <<8067, <<7947, 921>>>>,
    <<8068, <<7948, 921>>>>, <<8069, <<7949, 921>>>>,
    <<8070, <<7950, 921>>>>, <<8071, <<7951, 921>>>>,
    <<8072, <<7944, 921>>>>, <<8073, <<7945, 921>>>>,
    <<8074, <<7946, 921>>>>, <<8075, <<7947, 921>>>>,
    <<8076, <<7948, 921>>>>, <<8077, <<7949, 921>>>>,
    <<8078, <<7950, 921>>>>, <<8079, <<7951, 921>>>>,
    <<8080, <<7976, 921>>>>, <<8081, <<7977, 921>>>>,
    <<8082, <<7978, 921>>>>, <<8083, <<7979, 921>>>>,
    <<8084, <<7980, 921>>>>, <<8085, <<7981, 921>>>>,
    <<8086, <<7982, 921>>>>, <<8087, <<7983, 921>>>>,
    <<8088, <<7976, 921>>>>, <<8089, <<7977, 921>>>>,
    <<8090, <<7978, 921>>>>, <<8091, <<7979, 921>>>>,
    <<8092, <<7980, 921>>>>, <<8093, <<7981, 921>>>>,
    <<8094, <<7982, 921>>>>, <<8095, <<7983, 921>>>>,
    <<8096, <<8040, 921>>>>, <<8097, <<8041, 921>>>>,
    <<8098, <<8042, 921>>>>, <<8099, <<8043, 921>>>>,
    <<8100, <<8044, 921>>>>, <<8101, <<8045, 921>>>>,
    <<8102, <<8046, 921>>>>, <<8103, <<8047, 921>>>>,
    <<8104, <<8040, 921>>>>, <<8105, <<8041, 921>>>>,
    <<8106, <<8042, 921>>>>, <<8107, <<8043, 921>>>>,
    <<8108, <<8044, 921>>>>, <<8109, <<8045, 921>>>>,
    <<8110, <<8046, 921>>>>, <<8111, <<8047, 921>>>>,
    <<8114, <<8122, 921>>>>, <<8115, <<913, 921>>>>,
    <<8116, <<902, 921>>>>, <<8118, <<913, 834>>>>,
    <<8119, <<913, 834, 921>>>>, <<8124, <<913, 921>>>>,
    <<8130, <<8138, 921>>>>, <<8131, <<919, 921>>>>,
    <<8132, <<905, 921>>>>, <<8134, <<919, 834>>>>,
    <<8135, <<919, 834, 921>>>>, <<8140, <<919, 921>>>>,
    <<8146, <<921, 776, 768>>>>, <<8147, <<921, 776, 769>>>>,
    <<8150, <<921, 834>>>>, <<8151, <<921, 776, 834>>>>,
    <<8162, <<933, 776, 768>>>>, <<8163, <<933, 776, 769>>>>,
    <<8164, <<929, 787>>>>, <<8166, <<933, 834>>>>,
    <<8167, <<933, 776, 834>>>>, <<8178, <<8186, 921>>>>,
    <<8179, <<937, 921>>>>, <<8180, <<911, 921>>>>, <<8182, <<937, 834>>>>,
    <<8183, <<937, 834, 921>>>>, <<8188, <<937, 921>>>>,
    <<64256, <<70, 70>>>>, <<64257, <<70, 73>>>>, <<64258, <<70, 76>>>>,
    <<64259, <<70, 70, 73>>>>, <<64260, <<70, 70, 76>>>>,
    <<64261, <<83, 84>>>>, <<64262, <<83, 84>>>>,
    <<64275, <<1348, 1350>>>>, <<64276, <<1348, 1333>>>>,
    <<64277, <<1348, 1339>>>>, <<64278, <<1358, 1350>>>>,
    <<64279, <<1348, 1341>>>>
    >>

\* The UTF-16 code units of a code point.
codeUnits(cp) ==
    IF cp < 65536 THEN <<cp>>
    ELSE <<55296 + ((cp - 65536) \div 1024), 56320 + ((cp - 65536) % 1024)>>

\* The upper case of the code point cp, in code units.
upperCaseOf(cp) ==
    IF cp < 128
    THEN IF cp \in 97..122 THEN <<cp - 32>> ELSE <<cp>>
    ELSE LET special == {k \in DOMAIN UpperCaseSpecial : UpperCaseSpecial[k][1] = cp}
             ranged == {k \in DOMAIN UpperCaseRanges :
                          /\ UpperCaseRanges[k][1] <= cp
                          /\ cp <= UpperCaseRanges[k][2]
                          /\ (cp - UpperCaseRanges[k][1]) % UpperCaseRanges[k][3] = 0}
         IN  IF special # {}
             THEN UpperCaseSpecial[CHOOSE k \in special : TRUE][2]
             ELSE IF ranged # {}
             THEN codeUnits(cp + UpperCaseRanges[CHOOSE k \in ranged : TRUE][4])
             ELSE codeUnits(cp)

\* toUpperCase from code unit k of s on: a high surrogate followed by a low
\* surrogate is one code point, any other code unit is a code point itself.
RECURSIVE toUpperCaseFrom(_, _)
toUpperCaseFrom(s, k) ==
    IF k > Len(s) THEN <<>>
    ELSE IF /\ s[k] \in 55296..56319
            /\ k < Len(s)
            /\ s[k + 1] \in 56320..57343
    THEN upperCaseOf(65536 + (s[k] - 55296) * 1024 + (s[k + 1] - 56320))
             \o toUpperCaseFrom(s, k + 2)
    ELSE upperCaseOf(s[k]) \o toUpperCaseFrom(s, k + 1)

toUpperCase(s) == toUpperCaseFrom(s, 1)

\* String(n) of an integer n: its decimal digits, with a minus sign if n < 0.
RECURSIVE digitsOf(_)
digitsOf(n) ==
    IF n < 10 THEN <<48 + n>> ELSE Append(digitsOf(n \div 10), 48 + (n % 10))

numberToString(n) == IF n < 0 THEN <<45>> \o digitsOf(0 - n) ELSE digitsOf(n)

\* s.padStart(2, '0')
padStart2(s) == IF Len(s) < 2 THEN [k \in 1..(2 - Len(s)) |-> 48] \o s ELSE s

\* A number that may be NaN.
NaN == [nan |-> TRUE, val |-> 0]
Number(n) == [nan |-> FALSE, val |-> n]
isNaN(v) == v.nan

\* The value of the longest run of decimal digits that starts s, and its
\* length.
RECURSIVE leadingDigits(_, _, _)
leadingDigits(s, count, value) ==
    IF s # <<>> /\ Head(s) \in 48..57
    THEN leadingDigits(Tail(s), count + 1, value * 10 + (Head(s) - 48))
    ELSE <<count, value>>

\* parseInt(s, 10): leading white space is skipped, one sign is read, then
\* the digits up to the first other character; NaN when there is no digit.
parseInt(s) ==
    LET t == trimStart(s)
        signed == t # <<>> /\ Head(t) \in {43, 45}
        sign == IF t # <<>> /\ Head(t) = 45 THEN 0 - 1 ELSE 1
        d == leadingDigits(IF signed THEN Tail(t) ELSE t, 0, 0)
    IN  IF d[1] = 0 THEN NaN ELSE Number(sign * d[2])

\* ------------------------------------------------------------------------
\* Word list and game configuration
\* ------------------------------------------------------------------------

wordList ==
    << "volcano", "library", "pizza", "dinosaur", "astronaut",
       "rainbow", "penguin", "chocolate", "submarine", "guitar",
       "elephant", "hurricane", "treasure", "jungle", "wizard",
       "pyramid", "dolphin", "tornado", "castle", "robot",
       "butterfly", "mountain", "spaceship", "dragon", "unicorn",
       "pirate", "hospital", "detective", "skeleton", "flamingo",
       "waterfall", "superhero", "campfire", "kangaroo", "avalanche",
       "lightning", "mushroom", "scarecrow", "telescope", "octopus",
       "helicopter", "goldfish", "firework", "nightmare", "mermaid",
       "thunderstorm", "crocodile", "sunflower", "jellyfish", "snowman" >>

ROUND_LENGTH_SECONDS == 120

\* The value of TOTAL_PLAYERS when the script has loaded.
InitialTotalPlayers == 6

\* ------------------------------------------------------------------------
\* Round clock. dateNow is the value of Date.now(), in milliseconds.
\* ------------------------------------------------------------------------

\* a % b of JavaScript for b > 0: the remainder has the sign of a.
jsRem(a, b) == IF a >= 0 THEN a % b ELSE 0 - ((0 - a) % b)

\* Math.floor(Date.now() / 1000)
currentUnixSeconds(dateNow) == dateNow \div 1000

\* The round number taken from the milliseconds: the / 1000 is left out.
getCurrentRoundNumber_Milliseconds(dateNow) == dateNow \div ROUND_LENGTH_SECONDS

\* The round number rounded to the nearest window instead of floored.
getCurrentRoundNumber_Rounded(dateNow) ==
    (currentUnixSeconds(dateNow) + ROUND_LENGTH_SECONDS \div 2) \div ROUND_LENGTH_SECONDS

getCurrentRoundNumber(dateNow) ==
    currentUnixSeconds(dateNow) \div ROUND_LENGTH_SECONDS

getSecondsUntilNextRound(dateNow) ==
    LET secondsIntoRound == jsRem(currentUnixSeconds(dateNow), ROUND_LENGTH_SECONDS)
    IN  ROUND_LENGTH_SECONDS - secondsIntoRound

\* ------------------------------------------------------------------------
\* Bounds of the model
\* ------------------------------------------------------------------------

\* The browsers that may have the page open.
Browsers == {1, 2}

\* Longest seed of the hash machine, and the code units its seeds are made of.
MaxSeedLen == 5
SeedChars == {48, 65, 65535}

\* The slider reports an integer in 0..MaxSlider (its markup is not part of
\* the script).
MaxSlider == 6

\* Slot counts and round numbers the resolver is called with directly.
MaxSlots == 6
MaxRound == 3

\* Last instants (milliseconds) of the clock runs.
MaxNowClock == 125000
MaxNowPage == 120000

\* ------------------------------------------------------------------------
\* Inputs
\* ------------------------------------------------------------------------

\* Room code fields: "", "  ", " ab ", and "\u00DF7", whose upper case is
\* "SS7".
RoomTexts == {<<>>, <<32, 32>>, <<32, 97, 98, 32>>, <<223, 55>>}

\* Player number fields: "", "0", "3", " 5x", "7".
NumberTexts == {<<>>, <<48>>, <<51>>, <<32, 53, 120>>, <<55>>}

SliderValues == 0..MaxSlider

\* Two browsers in one room: " ab " and "AB", player "3", the slider at 3
\* or at its initial value.
PairRoomTexts == {<<32, 97, 98, 32>>, <<65, 66>>}
PairNumberTexts == {<<51>>}
PairSliderValues == {3, InitialTotalPlayers}
PairSkews == {0, 1000}

\* The page is loaded one second before the first round boundary.
PageStartTimes == {(ROUND_LENGTH_SECONDS - 1) * 1000}
PageSteps == {1000}

\* What the clock advances between the two Date.now() reads of one
\* updateTimer: nothing, or a second (the script was held up in between).
ReadDelays == {0, 1000}

\* Clock runs from the epoch, in steps of half a second or a second, the
\* browsers' clocks behind by a second (a clock set to before 1970), or ahead
\* by nothing, half a second, half a second less than a window, or a whole
\* window.
ClockSteps == {500, 1000}
ClockSkews ==
    {0 - 1000, 0, 500, ROUND_LENGTH_SECONDS * 1000 - 500, ROUND_LENGTH_SECONDS * 1000}

\* Seeds of the hash machine.
Seeds == UNION {[1..n -> SeedChars] : n \in 0..MaxSeedLen}

\* Room codes and round numbers of direct resolver calls: "", "A", "AB",
\* "PINKFISH"; the first rounds and a round of the year 2025.
EngineRooms == {<<>>, <<65>>, <<65, 66>>, <<80, 73, 78, 75, 70, 73, 83, 72>>}
EngineRounds == (0..MaxRound) \cup {14688000}

\* ------------------------------------------------------------------------
\* Game state resolver. totalPlayers is the value of the global
\* TOTAL_PLAYERS that getImposterPlayer reads when it is called.
\* ------------------------------------------------------------------------

\* "-imposter-" and "-word-"
ImposterTag == <<45, 105, 109, 112, 111, 115, 116, 101, 114, 45>>
WordTag == <<45, 119, 111, 114, 100, 45>>

\* The room code revealRole reads from the input field.
roomCodeOf(roomText) == toUpperCase(trim(roomText))

\* The slot taken with Math.round instead of Math.floor.
getImposterPlayer_Rounded(roomCode, roundKey, totalPlayers) ==
    LET seed == roomCode \o ImposterTag \o roundKey
    IN  1 + (FloorTimes(seededRandom(seed), 2 * totalPlayers) + 1) \div 2

getImposterPlayer(roomCode, roundKey, totalPlayers) ==
    LET seed == roomCode \o ImposterTag \o roundKey
    IN  1 + FloorTimes(seededRandom(seed), totalPlayers)

getSecretWord(roomCode, roundKey) ==
    LET seed == roomCode \o WordTag \o roundKey
        wordIndex == FloorTimes(seededRandom(seed), Len(wordList))
    IN  wordList[wordIndex + 1]

\* The values getImposterPlayer and getSecretWord return to a caller that
\* asks for both, with the arguments they were called with.
resolveRound(roomCode, roundKey, totalPlayers) ==
    [roomCode |-> roomCode,
     roundKey |-> roundKey,
     totalPlayers |-> totalPlayers,
     imposterPlayer |-> getImposterPlayer(roomCode, roundKey, totalPlayers),
     secretWord |-> getSecretWord(roomCode, roundKey)]

\* No call of the resolver yet (String(roundNumber) is never empty).
NoResult ==
    [roomCode |-> <<>>, roundKey |-> <<>>, totalPlayers |-> 0,
     imposterPlayer |-> 0, secretWord |-> ""]

\* ------------------------------------------------------------------------
\* State
\* ------------------------------------------------------------------------

VARIABLES
    seedString,     \* hash machine: the argument of seededRandom
    i,              \* hash machine: the loop index of seedToNumber
    hash,           \* hash machine: the local variable hash
    hpc,            \* hash machine: "loop", "mix", "return", "done" ("idle": not running)
    mixK,           \* hash machine: the mixing statement to run next (1..7)
    rnd,            \* hash machine: the numerator of the float returned
    loaded,         \* the browsers that have loaded the page
    now,            \* real time, in milliseconds since the epoch
    skew,           \* skew[p]: what browser p's clock is ahead of real time (ms)
    sinceTimer,     \* sinceTimer[p]: time since updateTimer last ran in p (ms)
    roundInfo,      \* roundInfo[p]: the round number in roundInfo.textContent
    countdown,      \* countdown[p]: the time string in countdown.textContent
    TOTAL_PLAYERS,  \* TOTAL_PLAYERS[p]: the global of browser p
    playerNumberMax,\* playerNumberMax[p]: the slot count the labels and max show
    resultDiv,      \* resultDiv[p]: resultDiv.classList among hidden, imposter, normal
    roleDisplay,    \* roleDisplay[p]: roleDisplay.textContent
    wordDisplay,    \* wordDisplay[p]: wordDisplay.textContent
    alertMsg,       \* alertMsg[p]: the alert of the latest revealRole (NoAlert: none)
    playerNumber,   \* playerNumber[p]: the local playerNumber of the latest
                    \* revealRole that passed validation (0: none yet)
    resolved        \* resolved[p]: what the resolver last returned in browser p

hashVars == <<seedString, i, hash, hpc, mixK, rnd>>
clockVars == <<now, skew, sinceTimer, roundInfo, countdown>>
sliderVars == <<TOTAL_PLAYERS, playerNumberMax>>
displayVars == <<resultDiv, roleDisplay, wordDisplay>>
revealVars == <<displayVars, alertMsg, playerNumber, resolved>>
vars == <<hashVars, loaded, clockVars, sliderVars, revealVars>>

TimerIntervalMs == 1000

\* Date.now() in browser p.
DateNow(p) == now + skew[p]

NoAlert == [text |-> "", max |-> 0]
RoomAlert == [text |-> "Please enter a room code.", max |-> 0]
\* `Please enter a valid player number (1-${TOTAL_PLAYERS}).`
PlayerAlert(totalPlayers) ==
    [text |-> "Please enter a valid player number (1-max).", max |-> totalPlayers]

\* The texts revealRole writes, without the pictograph each role text starts
\* with. roundInfo and countdown hold the number and the time string that
\* updateTimer puts into their fixed sentences.
ImposterRole == "You are the Imposter!"
NormalRole == "You are NOT the Imposter"
BlendIn == "Try to blend in!"

\* `${minutes}:${seconds.toString().padStart(2, '0')}`
timeString(secondsRemaining) ==
    LET minutes == secondsRemaining \div 60
        seconds == jsRem(secondsRemaining, 60)
    IN  numberToString(minutes) \o <<58>> \o padStart2(numberToString(seconds))

\* ------------------------------------------------------------------------
\* Initial states
\* ------------------------------------------------------------------------

HashIdle ==
    /\ seedString = <<>>
    /\ i = 0
    /\ hash = Num(HashInit)
    /\ hpc = "idle"
    /\ mixK = 1
    /\ rnd = <<0, 0>>

\* The page as loaded in the browsers L, at one of the instants startTimes,
\* their clocks ahead by one of skews: TOTAL_PLAYERS is 6, the result is
\* hidden, updateTimer has run once and has just returned. Its first
\* Date.now(), in getCurrentRoundNumber, was read one of delays before its
\* second, in getSecondsUntilNextRound.
PageInit(L, startTimes, skews, delays) ==
    /\ loaded = L
    /\ now \in startTimes
    /\ skew \in [Browsers -> skews]
    /\ \A p \in Browsers \ L : skew[p] = 0
    /\ sinceTimer = [p \in Browsers |-> 0]
    /\ \E readDelay \in [Browsers -> delays] :
           /\ \A p \in Browsers \ L : readDelay[p] = 0
           /\ roundInfo = [p \in Browsers |->
                              getCurrentRoundNumber(DateNow(p) - readDelay[p])]
    /\ countdown = [p \in Browsers |-> timeString(getSecondsUntilNextRound(DateNow(p)))]
    /\ TOTAL_PLAYERS = [p \in Browsers |-> InitialTotalPlayers]
    /\ playerNumberMax = [p \in Browsers |-> InitialTotalPlayers]
    /\ resultDiv = [p \in Browsers |-> {"hidden"}]
    /\ roleDisplay = [p \in Browsers |-> ""]
    /\ wordDisplay = [p \in Browsers |-> ""]
    /\ alertMsg = [p \in Browsers |-> NoAlert]
    /\ playerNumber = [p \in Browsers |-> 0]
    /\ resolved = [p \in Browsers |-> NoResult]

\* ------------------------------------------------------------------------
\* Handlers of the page
\* ------------------------------------------------------------------------

\* Real time advances by d milliseconds. The interval timer of a loaded page
\* that is due runs before time moves on.
Tick(d) ==
    /\ \A p \in loaded : sinceTimer[p] < TimerIntervalMs
    /\ now' = now + d
    /\ sinceTimer' = [p \in Browsers |-> IF p \in loaded THEN sinceTimer[p] + d ELSE 0]
    /\ UNCHANGED <<hashVars, loaded, skew, roundInfo, countdown, sliderVars,
                   revealVars>>

\* updateTimer, run by setInterval(updateTimer, 1000). It reads Date.now()
\* twice, in getCurrentRoundNumber and then in getSecondsUntilNextRound; the
\* clock advances by readDelay milliseconds between the two reads.
updateTimer(p, readDelay) ==
    /\ p \in loaded
    /\ sinceTimer[p] >= TimerIntervalMs
    /\ LET roundNumber == getCurrentRoundNumber(DateNow(p))
           secondsRemaining == getSecondsUntilNextRound(DateNow(p) + readDelay)
       IN  /\ roundInfo' = [roundInfo EXCEPT ![p] = roundNumber]
           /\ countdown' = [countdown EXCEPT ![p] = timeString(secondsRemaining)]
    /\ now' = now + readDelay
    /\ sinceTimer' = [q \in Browsers |->
                         IF q = p THEN readDelay
                         ELSE IF q \in loaded THEN sinceTimer[q] + readDelay
                         ELSE 0]
    /\ UNCHANGED <<hashVars, loaded, skew, sliderVars, revealVars>>

\* updateTotalPlayers, the slider's input handler; sliderValue is the number
\* the slider stands at, totalPlayersSlider.value its decimal string.
updateTotalPlayers(p, sliderValue) ==
    /\ p \in loaded
    /\ LET value == parseInt(numberToString(sliderValue))
       IN  /\ TOTAL_PLAYERS' = [TOTAL_PLAYERS EXCEPT ![p] = value.val]
           /\ playerNumberMax' = [playerNumberMax EXCEPT ![p] = value.val]
    /\ UNCHANGED <<hashVars, loaded, clockVars, revealVars>>

\* if (!roomCode)
roomCodeMissing(roomCode) == roomCode = <<>>

\* The validation without its upper bound.
playerNumberInvalid_NoUpperBound(number, totalPlayers) ==
    \/ isNaN(number)
    \/ (~isNaN(number) /\ number.val < 1)

\* if (isNaN(playerNumber) || playerNumber < 1 || playerNumber > TOTAL_PLAYERS)
playerNumberInvalid(number, totalPlayers) ==
    \/ isNaN(number)
    \/ (~isNaN(number) /\ number.val < 1)
    \/ (~isNaN(number) /\ number.val > totalPlayers)

\* The result with the secret word written in both branches.
showRole_WordAlways(number, imposterPlayer, secretWord) ==
    IF number = imposterPlayer
    THEN [class |-> "imposter", role |-> ImposterRole, word |-> secretWord]
    ELSE [class |-> "normal", role |-> NormalRole, word |-> secretWord]

\* What revealRole writes to the result: the class it adds to resultDiv and
\* the two text contents.
showRole(number, imposterPlayer, secretWord) ==
    IF number = imposterPlayer
    THEN [class |-> "imposter", role |-> ImposterRole, word |-> BlendIn]
    ELSE [class |-> "normal", role |-> NormalRole, word |-> secretWord]

\* revealRole with roomText in the room code field and numberText in the
\* player number field.
revealRole(p, roomText, numberText) ==
    /\ p \in loaded
    /\ LET roomCode == roomCodeOf(roomText)
           number == parseInt(numberText)
       IN  IF roomCodeMissing(roomCode)
           THEN /\ alertMsg' = [alertMsg EXCEPT ![p] = RoomAlert]
                /\ UNCHANGED <<displayVars, playerNumber, resolved>>
           ELSE IF playerNumberInvalid(number, TOTAL_PLAYERS[p])
           THEN /\ alertMsg' = [alertMsg EXCEPT ![p] = PlayerAlert(TOTAL_PLAYERS[p])]
                /\ UNCHANGED <<displayVars, playerNumber, resolved>>
           ELSE LET roundNumber == getCurrentRoundNumber(DateNow(p))
                    roundKey == numberToString(roundNumber)
                    r == resolveRound(roomCode, roundKey, TOTAL_PLAYERS[p])
                    shown == showRole(number.val, r.imposterPlayer, r.secretWord)
                IN  /\ alertMsg' = [alertMsg EXCEPT ![p] = NoAlert]
                    /\ playerNumber' = [playerNumber EXCEPT ![p] = number.val]
                    /\ resolved' = [resolved EXCEPT ![p] = r]
                    /\ resultDiv' = [resultDiv EXCEPT ![p] =
                           (@ \ {"hidden", "imposter", "normal"}) \cup {shown.class}]
                    /\ roleDisplay' = [roleDisplay EXCEPT ![p] = shown.role]
                    /\ wordDisplay' = [wordDisplay EXCEPT ![p] = shown.word]
    /\ UNCHANGED <<hashVars, loaded, clockVars, sliderVars>>

\* A direct call of the resolver for a room code and a round number.
Resolve(p, roomCode, roundNumber) ==
    /\ p \in loaded
    /\ resolved' = [resolved EXCEPT ![p] =
           resolveRound(roomCode, numberToString(roundNumber), TOTAL_PLAYERS[p])]
    /\ UNCHANGED <<hashVars, loaded, clockVars, sliderVars, displayVars, alertMsg,
                   playerNumber>>

\* ------------------------------------------------------------------------
\* The hash machine: seededRandom(seedString), one statement at a time
\* ------------------------------------------------------------------------

pageVars == <<loaded, clockVars, sliderVars, revealVars>>

\* The body of the for loop of seedToNumber.
LoopIteration ==
    /\ hpc = "loop"
    /\ i < Len(seedString)
    /\ hash' = djb2Step(hash, seedString[i + 1])
    /\ i' = i + 1
    /\ UNCHANGED <<seedString, hpc, mixK, rnd, pageVars>>

\* The loop ends; seedToNumber returns hash to seededRandom.
LoopExit ==
    /\ hpc = "loop"
    /\ i >= Len(seedString)
    /\ hpc' = "mix"
    /\ UNCHANGED <<seedString, i, hash, mixK, rnd, pageVars>>

\* The next of the seven mixing statements.
MixStatement ==
    /\ hpc = "mix"
    /\ hash' = mixStep(mixK, hash)
    /\ IF mixK = 7
       THEN hpc' = "return" /\ mixK' = mixK
       ELSE hpc' = hpc /\ mixK' = mixK + 1
    /\ UNCHANGED <<seedString, i, rnd, pageVars>>

\* return (hash >>> 0) / 4294967296
ReturnFloat ==
    /\ hpc = "return"
    /\ rnd' = dividend(hash)
    /\ hpc' = "done"
    /\ UNCHANGED <<seedString, i, hash, mixK, pageVars>>

\* ------------------------------------------------------------------------
\* Specifications
\* ------------------------------------------------------------------------

\* One browser: the page, its slider, its reveal button and its timer.
Init == HashIdle /\ PageInit({1}, PageStartTimes, {0}, ReadDelays)

Next ==
    \/ \E d \in PageSteps : now + d <= MaxNowPage /\ Tick(d)
    \/ \E d \in ReadDelays : now + d <= MaxNowPage /\ updateTimer(1, d)
    \/ \E v \in SliderValues : updateTotalPlayers(1, v)
    \/ \E roomText \in RoomTexts, numberText \in NumberTexts :
           revealRole(1, roomText, numberText)

Spec == Init /\ [][Next]_vars

\* Two browsers, each with its own clock, slider and reveal button.
InitPair ==
    HashIdle /\ PageInit(Browsers, PageStartTimes, PairSkews, ReadDelays) /\ skew[1] = 0

NextPair ==
    \/ \E d \in PageSteps : now + d <= MaxNowPage /\ Tick(d)
    \/ \E p \in Browsers, d \in ReadDelays :
           now + d <= MaxNowPage /\ updateTimer(p, d)
    \/ \E p \in Browsers, v \in PairSliderValues : updateTotalPlayers(p, v)
    \/ \E p \in Browsers, roomText \in PairRoomTexts, numberText \in PairNumberTexts :
           revealRole(p, roomText, numberText)

SpecPair == InitPair /\ [][NextPair]_vars

\* Two clocks and their timers over more than one window.
InitClock ==
    HashIdle /\ PageInit(Browsers, {0}, ClockSkews, ReadDelays) /\ skew[1] = 0

NextClock ==
    \/ \E d \in ClockSteps : now + d <= MaxNowClock /\ Tick(d)
    \/ \E p \in Browsers, d \in ReadDelays :
           now + d <= MaxNowClock /\ updateTimer(p, d)

SpecClock == InitClock /\ [][NextClock]_vars

\* seededRandom on every seed of Seeds.
InitHash ==
    /\ seedString \in Seeds
    /\ i = 0
    /\ hash = Num(HashInit)
    /\ hpc = "loop"
    /\ mixK = 1
    /\ rnd = <<0, 0>>
    /\ PageInit({}, {0}, {0}, {0})

NextHash == LoopIteration \/ LoopExit \/ MixStatement \/ ReturnFloat

SpecHash == InitHash /\ [][NextHash]_vars

\* The resolver called directly, for every slot count from 1 to MaxSlots.
InitEngine == HashIdle /\ PageInit({1}, {0}, {0}, {0})

NextEngine ==
    \/ \E n \in 1..MaxSlots : updateTotalPlayers(1, n)
    \/ \E roomCode \in EngineRooms, roundNumber \in EngineRounds :
           Resolve(1, roomCode, roundNumber)

SpecEngine == InitEngine /\ [][NextEngine]_vars

\* ------------------------------------------------------------------------
\* Properties
\* ------------------------------------------------------------------------

Abs(n) == IF n < 0 THEN 0 - n ELSE n
WindowMs == ROUND_LENGTH_SECONDS * 1000

\* C1: two browsers whose latest reveals used the same room code in the same
\* round computed the same imposter player number and the same secret word,
\* whatever each did with its own slider, timer and reveal button.
C1_SameRoomSameRound_SameResult ==
    \A p \in loaded, q \in loaded :
        (/\ resolved[p] # NoResult
         /\ resolved[q] # NoResult
         /\ resolved[p].roomCode = resolved[q].roomCode
         /\ resolved[p].roundKey = resolved[q].roundKey)
        => /\ resolved[p].imposterPlayer = resolved[q].imposterPlayer
           /\ resolved[p].secretWord = resolved[q].secretWord

\* C2 as stated: two callers whose clocks differ by less than the window
\* length compute the same round number at the same real instant.
C2_SkewBelowWindow_SameRound ==
    \A p \in loaded, q \in loaded :
        Abs(DateNow(p) - DateNow(q)) < WindowMs
        => getCurrentRoundNumber(DateNow(p)) = getCurrentRoundNumber(DateNow(q))

\* C2 as amended: two callers whose clocks differ by less than the window
\* length compute, at the same real instant, round numbers that differ by at
\* most one: the caller whose clock is ahead is in the same round or the next.
C2_SkewBelowWindow_RoundsWithinOne ==
    \A p \in loaded, q \in loaded :
        (DateNow(p) <= DateNow(q) /\ DateNow(q) - DateNow(p) < WindowMs)
        => getCurrentRoundNumber(DateNow(q)) - getCurrentRoundNumber(DateNow(p))
               \in {0, 1}

\* Two clocks less than a window apart have run to either side of a round
\* boundary, and each timer has shown its round.
C2_Witness ==
    /\ now > 0
    /\ \A p \in Browsers : roundInfo[p] = getCurrentRoundNumber(DateNow(p))
    /\ Abs(DateNow(1) - DateNow(2)) < WindowMs
    /\ DateNow(1) # DateNow(2)
    /\ Abs(getCurrentRoundNumber(DateNow(1)) - getCurrentRoundNumber(DateNow(2))) = 1

\* C3: getImposterPlayer returns an integer p with 1 <= p <= N for every room
\* code, every round key and every slot count N >= 1 it is called with.
C3_ImposterWithinSlots ==
    \A p \in loaded :
        (resolved[p] # NoResult /\ resolved[p].totalPlayers >= 1)
        => resolved[p].imposterPlayer \in 1..resolved[p].totalPlayers

\* The resolver has returned the last of at least three slots.
C3_Witness ==
    /\ resolved[1] # NoResult
    /\ resolved[1].totalPlayers >= 3
    /\ resolved[1].imposterPlayer = resolved[1].totalPlayers

\* C4: the integer seededRandom divides by 2^32 lies in [0, 2^32 - 1], so the
\* float returned is in [0, 1), once all seven mixing statements have run,
\* although hash is a signed 32-bit value after each XOR statement (it is an
\* unsigned one after each multiplication).
C4_DividendInRange ==
    /\ hpc = "done" => (InUint32(rnd) /\ rnd = ToUint32(hash))
    /\ hpc \in {"mix", "return"} => InUint32(dividend(hash))
    /\ (hpc = "mix" /\ mixK \in {3, 5, 7}) => InUint32(hash)
    /\ ((hpc = "mix" /\ mixK \in {2, 4, 6}) \/ hpc \in {"return", "done"})
           => InInt32(hash)

\* seededRandom has returned, and hash was negative when it was divided.
C4_Witness == hpc = "done" /\ hash[1] < 0 /\ InUint32(rnd)

\* The reference rolling hash: 5381 for the empty seed, and
\* (h * 33 + c) mod 2^32 for a seed of hash h extended by the code unit c.
RECURSIVE rollingHash(_)
rollingHash(s) ==
    IF s = <<>> THEN Num(5381)
    ELSE LET h == rollingHash(SubSeq(s, 1, Len(s) - 1))
         IN  ToUint32(Add(Norm(h[1] * 33, h[2] * 33), Num(s[Len(s)])))

\* C6: seedToNumber is the reference rolling hash: after i iterations hash is
\* the rolling hash of the first i code units, 5381 before the first, and it
\* is in [0, 2^32 - 1] after every iteration.
C6_MatchesRollingHash ==
    hpc = "loop"
    => /\ InUint32(hash)
       /\ hash = rollingHash(SubSeq(seedString, 1, i))
       /\ i = 0 => hash = <<0, 5381>>

\* An iteration has run whose signed shift (hash << 5) was negative.
C6_Witness ==
    /\ hpc = "loop"
    /\ i >= 1
    /\ ShiftLeft(rollingHash(SubSeq(seedString, 1, i - 1)), 5)[1] < 0

\* C7 as stated: seedToNumber("A") = 177658.
C7_HashOfA_Is177658 ==
    (seedString = <<65>> /\ hpc = "loop" /\ i = 1) => hash = Num(177658)

\* C7 as amended: seedToNumber("A") = (5381 * 33 + 65) mod 2^32 = 177638.
C7_HashOfA_Is177638 ==
    (seedString = <<65>> /\ hpc = "loop" /\ i = 1)
    => /\ hash = Num(177638)
       /\ hash = ToUint32(Num(5381 * 33 + 65))

\* The loop of seedToNumber("A") has run its one iteration.
C7_Witness == seedString = <<65>> /\ hpc = "loop" /\ i = 1

\* C5: the countdown satisfies 1 <= getSecondsUntilNextRound() <= 120 at
\* every clock value, and it is 120, never 0, exactly on a window boundary.
C5_CountdownBound ==
    \A p \in loaded :
        LET s == getSecondsUntilNextRound(DateNow(p))
        IN  /\ 1 <= s
            /\ s <= ROUND_LENGTH_SECONDS
            /\ currentUnixSeconds(DateNow(p)) % ROUND_LENGTH_SECONDS = 0
                   => s = ROUND_LENGTH_SECONDS

\* The amounts of time below limit milliseconds by which a clock of the runs
\* can advance: the multiples of half a second.
AmountsBelow(limit) == {k * 500 : k \in 0..((limit - 1) \div 500)}

\* C10 as stated, at clock value t (milliseconds): the clock advanced by the
\* countdown is in the next round, advanced by any smaller amount it is in
\* the same round.
LockstepAnyAmount(t) ==
    LET s == getSecondsUntilNextRound(t)
    IN  /\ getCurrentRoundNumber(t + s * 1000) = getCurrentRoundNumber(t) + 1
        /\ \A d \in AmountsBelow(s * 1000) :
               getCurrentRoundNumber(t + d) = getCurrentRoundNumber(t)

\* C10 as stated, along a step of the clock: the round number does not
\* decrease, and it changes only if the countdown has expired.
RoundStepAtExpiry(p) ==
    LET t == DateNow(p)
        u == now' + skew'[p]
    IN  /\ getCurrentRoundNumber(u) >= getCurrentRoundNumber(t)
        /\ getCurrentRoundNumber(u) # getCurrentRoundNumber(t)
               => u - t >= getSecondsUntilNextRound(t) * 1000

\* C10 as stated: round number and countdown move in lockstep at every clock
\* value t >= 0: advancing the clock by the countdown yields the next round,
\* advancing it by any smaller amount leaves the round unchanged, so that
\* along any run of the clock the round number never decreases and changes
\* only when the countdown expires.
C10_LockstepAnySmallerAmount ==
    /\ [](\A p \in loaded : DateNow(p) >= 0 => LockstepAnyAmount(DateNow(p)))
    /\ [][\A p \in loaded : DateNow(p) >= 0 => RoundStepAtExpiry(p)]_vars

\* C10 as amended, at clock value t (milliseconds): the clock advanced by the
\* countdown is in the next round, advanced by any amount of at most one
\* second less than the countdown it is in the same round.
LockstepToLastSecond(t) ==
    LET s == getSecondsUntilNextRound(t)
    IN  /\ getCurrentRoundNumber(t + s * 1000) = getCurrentRoundNumber(t) + 1
        /\ \A d \in AmountsBelow((s - 1) * 1000 + 1) :
               getCurrentRoundNumber(t + d) = getCurrentRoundNumber(t)

\* C10 as amended, along a step of the clock: the round number does not
\* decrease, and it changes only if more time has passed than one second
\* less than the countdown.
RoundStepInLastSecond(p) ==
    LET t == DateNow(p)
        u == now' + skew'[p]
    IN  /\ getCurrentRoundNumber(u) >= getCurrentRoundNumber(t)
        /\ getCurrentRoundNumber(u) # getCurrentRoundNumber(t)
               => u - t > (getSecondsUntilNextRound(t) - 1) * 1000

\* C10 as amended: at every clock value t >= 0, advancing the clock by the
\* countdown yields the next round and advancing it by any amount of at most
\* one second less than the countdown leaves the round unchanged, so that
\* along any run of the clock the round number never decreases and changes
\* only within the last second of the countdown or after it.
C10_LockstepToLastSecond ==
    /\ [](\A p \in loaded : DateNow(p) >= 0 => LockstepToLastSecond(DateNow(p)))
    /\ [][\A p \in loaded : DateNow(p) >= 0 => RoundStepInLastSecond(p)]_vars

\* A clock that stands on a half second has run from round 0 into round 1,
\* half a second before the whole seconds of the countdown had passed, and
\* the timer has shown the second round.
C10_Witness ==
    \E p \in loaded :
        /\ skew[p] = 500
        /\ DateNow(p) % 1000 = 500
        /\ roundInfo[p] = 1
        /\ getCurrentRoundNumber(DateNow(p)) = 1
        /\ getSecondsUntilNextRound(DateNow(p)) < ROUND_LENGTH_SECONDS

\* What revealRole has on display in browser p.
Display(p) ==
    [class |-> resultDiv[p], role |-> roleDisplay[p], word |-> wordDisplay[p]]

\* C8 (state): once a revealRole has passed validation, the display shows the
\* imposter role and no secret word if and only if the player's number is the
\* imposter slot of the room code, round and slot count it resolved;
\* otherwise it shows the other role and the secret word of that room and
\* round. The secret word is on display only when the player is not the
\* imposter.
RoleShown(p) ==
    LET r == resolved[p]
        imposter == getImposterPlayer(r.roomCode, r.roundKey, r.totalPlayers)
        word == getSecretWord(r.roomCode, r.roundKey)
    IN  /\ word \in {wordList[k] : k \in 1..Len(wordList)}
        /\ IF playerNumber[p] = imposter
           THEN Display(p) = [class |-> {"imposter"}, role |-> ImposterRole,
                              word |-> BlendIn]
           ELSE Display(p) = [class |-> {"normal"}, role |-> NormalRole,
                              word |-> word]
        /\ wordDisplay[p] = word => playerNumber[p] # imposter

\* C8 (step): a revealRole that passes validation resolves the room code in
\* the field, the round of the browser's clock and its TOTAL_PLAYERS.
ResolvesCurrent(p) ==
    (resolved'[p] # resolved[p] \/ playerNumber'[p] # playerNumber[p])
    => /\ resolved'[p].roomCode \in {roomCodeOf(roomText) : roomText \in RoomTexts}
       /\ resolved'[p].roundKey = numberToString(getCurrentRoundNumber(DateNow(p)))
       /\ resolved'[p].totalPlayers = TOTAL_PLAYERS[p]
       /\ alertMsg'[p] = NoAlert

\* C8: the role and word on display after every revealRole that passes
\* validation.
C8_DisplayMatchesImposterSlot ==
    /\ [](\A p \in loaded : resolved[p] # NoResult => RoleShown(p))
    /\ [][\A p \in loaded : ResolvesCurrent(p)]_vars

\* The imposter has revealed: the imposter role is shown and no word.
C8_Witness ==
    /\ resolved[1] # NoResult
    /\ playerNumber[1] = resolved[1].imposterPlayer
    /\ resultDiv[1] = {"imposter"}
    /\ wordDisplay[1] = BlendIn

\* The inputs of a revealRole fail validation: the room code is empty, the
\* slot number is no number or outside 1..slot count, or the slot count is
\* not positive.
InputsInvalid(roomText, numberText, totalPlayers) ==
    LET number == parseInt(numberText)
    IN  \/ Len(trim(roomText)) = 0
        \/ number.nan
        \/ number.val \notin 1..totalPlayers
        \/ totalPlayers <= 0

\* C9: revealRole calls the resolver only with a room code that is not empty,
\* a slot number within 1..slot count and a positive slot count; when a check
\* fails it raises an alert and returns with the resolver not called and the
\* result display unchanged.
C9_ValidatesBeforeResolving ==
    /\ [](\A p \in loaded :
            resolved[p] # NoResult
            => /\ resolved[p].roomCode # <<>>
               /\ resolved[p].totalPlayers > 0
               /\ playerNumber[p] \in 1..resolved[p].totalPlayers)
    /\ [][\A p \in loaded, roomText \in RoomTexts, numberText \in NumberTexts :
            (/\ InputsInvalid(roomText, numberText, TOTAL_PLAYERS[p])
             /\ revealRole(p, roomText, numberText))
            => /\ alertMsg'[p] # NoAlert
               /\ UNCHANGED <<displayVars, playerNumber, resolved>>]_vars

\* A reveal has been refused with the slider at 0, after one that passed:
\* the earlier result is still on display.
C9_Witness ==
    /\ alertMsg[1] = PlayerAlert(0)
    /\ resolved[1] # NoResult
    /\ resultDiv[1] # {"hidden"}
====
